---- MODULE Spec2Model ----
(***************************************************************************)
(* nefertari-sqla: the mutation lifecycle of a record (save / update /     *)
(* delete and the session flush), the sync handlers that push committed    *)
(* mutations to the secondary store, the bulk operations on a query, and   *)
(* the collection query compiler get_collection.                           *)
(***************************************************************************)
EXTENDS Integers, Sequences, FiniteSets, TLC

\* ------------------------------------------------------------------ bounds
MaxPk == 2
MaxClock == 2
MaxLimit == 1
MaxOffset == 1
MaxPage == 1
MaxFields == 2
MaxDepth == 2
MaxItems == 2
MaxCalls == 2

PKs == 1..MaxPk
Names == {"foo", "bar"}
FieldNames == {"name"}
ModelName == "MyModel"
pk_field == "id"

\* Python's None, an attribute that is not in the instance dict (NO_VALUE),
\* and a key that is not in committed_state / not in a params bag.
None == "None"
NoValue == "NO_VALUE"
Unset == "Unset"
Absent == "Absent"

Values == Names \cup {None}

VARIABLES
    db,        \* the relational table: pk -> row
    sess,      \* the session's instance of each pk (identity map and transients)
    es,        \* the secondary store: pk -> document
    events,    \* the sink calls made by the last operation, in order
    clock,     \* datetime.utcnow(), as a logical clock
    indexed,   \* whether the model class is index-enabled (ESBaseDocument)
    last       \* the last operation: its inputs, the state before it, its outcome

vars == <<db, sess, es, events, clock, indexed, last>>

\* ------------------------------------------------------------ storage rows
NoRow == [present |-> FALSE]
MkRow(vals, version, updated) ==
    [present |-> TRUE, vals |-> vals, version |-> version, updated |-> updated]

NoDoc == [present |-> FALSE]

\* str() of a primary key.
DigitStr == <<"1", "2", "3", "4", "5", "6", "7", "8", "9">>
Str(n) == IF n = 0 THEN "0" ELSE DigitStr[n]

\* A Python value where its type matters: the type and the text of the value.
PyInt(n) == [type |-> "int", repr |-> Str(n)]
PyStr(text) == [type |-> "str", repr |-> text]

\* BaseMixin.to_dict for a model without relationships: every native field,
\* then '_type' and '_pk' = str(pk).
to_dict(pk, vals) ==
    [present |-> TRUE, id |-> pk, vals |-> vals,
     _type |-> ModelName, _pk |-> PyStr(Str(pk))]

\* ------------------------------------------------------- session instances
AllFalse == [f \in FieldNames |-> FALSE]
AllTrue == [f \in FieldNames |-> TRUE]
NoHistory == [f \in FieldNames |-> Unset]

Transient ==
    [life |-> "transient", id |-> 0, vals |-> [f \in FieldNames |-> None],
     committed |-> NoHistory, modified |-> FALSE, loaded |-> AllFalse,
     version |-> 0, updated |-> 0]

\* state.persistent: attached and flushed, also while marked for deletion.
IsPersistent(o) == o.life \in {"persistent", "deleting"}

\* History of one attribute: TRUE when history.added or history.deleted is
\* non-empty.  An old value of NO_VALUE (the attribute was expired or never
\* loaded when it was set) equals no value, so the new value is "added".
HistoryChanged(o, f) ==
    /\ o.committed[f] # Unset
    /\ o.committed[f] # o.vals[f]

_is_modified(o) ==
    /\ IsPersistent(o)
    /\ o.modified
    /\ \E f \in FieldNames : HistoryChanged(o, f)

\* setattr(self, key, new_value) on an instrumented scalar attribute.
SetAttr(o, f, v) ==
    [o EXCEPT
        !.committed[f] = IF @ = Unset
                         THEN (IF o.loaded[f] THEN o.vals[f] ELSE NoValue)
                         ELSE @,
        !.vals[f] = v,
        !.loaded[f] = TRUE,
        !.modified = TRUE]

\* A params bag of update(): 'id' is 0 when the bag has no primary-key key,
\* every other key is absent or carries a value.
ParamBags == [id : 0..MaxPk, set : [FieldNames -> Names \cup {Absent}]]

\* The keys of a params bag.
BagKeys(params) ==
    {f \in FieldNames : params.set[f] # Absent}
    \cup (IF params.id # 0 THEN {pk_field} ELSE {})

\* The loop of _update over params.items(): "if key == pk_field: continue",
\* else setattr.
RECURSIVE ApplyKeys(_, _, _)
ApplyKeys(o, params, keys) ==
    IF keys = {} THEN o
    ELSE LET k == CHOOSE x \in keys : TRUE
         IN ApplyKeys(IF k = pk_field THEN o
                      ELSE SetAttr(o, k, params.set[k]),
                      params, keys \ {k})

_update_with_pk(o, params) ==
    [ApplyKeys(o, params, BagKeys(params))
        EXCEPT !.id = IF params.id # 0 THEN params.id ELSE @]

\* BaseMixin._update: the primary-key key is skipped, every other key is set.
_update(o, params) == ApplyKeys(o, params, BagKeys(params))

\* BaseDocument._bump_version.
_bump_version(o, now) ==
    IF _is_modified(o)
    THEN [o EXCEPT !.version = @ + 1, !.updated = now]
    ELSE o

\* ------------------------------------------------------------ sync handlers
\* index_object(obj, with_refs=True): es.index(obj.to_dict()), then
\* es.index_relations(obj).
index_object(pk, vals) ==
    <<[op |-> "index", pk |-> pk, doc |-> to_dict(pk, vals)],
      [op |-> "index_relations", pk |-> pk]>>

on_after_insert(pk, vals) == index_object(pk, vals)

on_after_update(pk, vals) == index_object(pk, vals)

on_after_delete_no_removal(pk) == <<[op |-> "index_relations", pk |-> pk]>>

on_after_delete(pk) ==
    <<[op |-> "delete", pk |-> pk], [op |-> "index_relations", pk |-> pk]>>

\* setup_es_signals_for: the three handlers listen on an index-enabled class
\* (ESMetaclass), and on no other class.
setup_es_signals_for(enabled, handler) == IF enabled THEN handler ELSE <<>>

\* ------------------------------------------------------------ session.flush
\* What the flush does with one instance: a pending instance is inserted, a
\* dirty persistent one is updated (after_update fires for every dirty
\* instance, with or without a net change), one marked deleted is deleted.
IsDirty(o) == o.life = "persistent" /\ o.modified

FlushObj(o, enabled) ==
    CASE o.life = "pending" \/ IsDirty(o) ->
            [o EXCEPT !.life = "persistent", !.committed = NoHistory,
                      !.modified = FALSE,
                      !.loaded = IF enabled THEN AllTrue ELSE @]
      [] o.life = "deleting" -> [o EXCEPT !.life = "deleted"]
      [] OTHER -> o

FlushRow(o, row) ==
    CASE o.life = "pending" \/ IsDirty(o) -> MkRow(o.vals, o.version, o.updated)
      [] o.life = "deleting" -> NoRow
      [] OTHER -> row

RECURSIVE SaveEvents(_, _, _)
SaveEvents(s, enabled, pk) ==
    IF pk > MaxPk THEN <<>>
    ELSE (CASE s[pk].life = "pending" ->
                  setup_es_signals_for(enabled, on_after_insert(pk, s[pk].vals))
            [] IsDirty(s[pk]) ->
                  setup_es_signals_for(enabled, on_after_update(pk, s[pk].vals))
            [] OTHER -> <<>>)
         \o SaveEvents(s, enabled, pk + 1)

RECURSIVE DeleteEvents(_, _, _)
DeleteEvents(s, enabled, pk) ==
    IF pk > MaxPk THEN <<>>
    ELSE (IF s[pk].life = "deleting"
          THEN setup_es_signals_for(enabled, on_after_delete(pk))
          ELSE <<>>)
         \o DeleteEvents(s, enabled, pk + 1)

FlushSession(s, enabled) == [pk \in PKs |-> FlushObj(s[pk], enabled)]
FlushDb(s, d) == [pk \in PKs |-> FlushRow(s[pk], d[pk])]
FlushEvents(s, enabled) == SaveEvents(s, enabled, 1) \o DeleteEvents(s, enabled, 1)

\* The secondary store after a sequence of sink calls.
RECURSIVE ApplyEvents(_, _)
ApplyEvents(store, evs) ==
    IF evs = <<>> THEN store
    ELSE LET e == Head(evs)
             next == CASE e.op = "index" -> [store EXCEPT ![e.pk] = e.doc]
                       [] e.op = "delete" -> [store EXCEPT ![e.pk] = NoDoc]
                       [] OTHER -> store
         IN ApplyEvents(next, Tail(evs))

\* ------------------------------------------------------- storage errors
\* What session.flush() can raise: an IntegrityError or another DBAPI
\* error.  Whether it reports a uniqueness violation, and whether the text
\* 'duplicate' is in its message e.args[0], depend on the database: the
\* message of a uniqueness violation is "duplicate key value violates
\* unique constraint" on PostgreSQL and "UNIQUE constraint failed" on
\* SQLite, and the message of another violation holds the names of the
\* constraint and the column.
NoError == [cls |-> "none", unique |-> FALSE, duplicate |-> FALSE]
StorageErrors ==
    [cls : {"IntegrityError"}, unique : BOOLEAN, duplicate : BOOLEAN]
    \cup [cls : {"OperationalError"}, unique : {FALSE}, duplicate : BOOLEAN]

NoRaise == [exc |-> "none", model |-> "", data |-> NoError]

\* The except clause of save() and update(): an IntegrityError with
\* 'duplicate' in e.args[0] becomes JHTTPConflict naming the class with the
\* error as extra data; anything else goes on as it is.
on_flush_error(e) ==
    IF e.cls = "IntegrityError" /\ e.duplicate
    THEN [exc |-> "JHTTPConflict", model |-> ModelName, data |-> e]
    ELSE [exc |-> e.cls, model |-> "", data |-> e]

\* Whether the flush has a statement to emit.
HasWork(s) ==
    \E pk \in PKs : s[pk].life \in {"pending", "deleting"} \/ IsDirty(s[pk])

\* ---------------------------------------------------------------- actions
\* The last operation.  After an operation that raised, the session's
\* transaction is rolled back and takes no further operation.
Op(kind, pk, params) ==
    [kind |-> kind, pk |-> pk, params |-> params, preDb |-> db,
     outcome |-> "returned", err |-> NoError, raised |-> NoRaise]

Raised(kind, pk, params, e) ==
    [Op(kind, pk, params) EXCEPT !.outcome = "raised", !.err = e,
                                 !.raised = on_flush_error(e)]

Usable == last.outcome = "returned"

NoParams == [id |-> 0, set |-> [f \in FieldNames |-> Absent]]

\* Model(**params) / instance._update(params): attributes are set, nothing
\* is flushed.
Assign(pk, params) ==
    /\ Usable
    /\ sess[pk].life \in {"transient", "persistent"}
    /\ \E f \in FieldNames : params.set[f] # Absent
    /\ sess' = [sess EXCEPT ![pk] = _update(@, params)]
    /\ events' = <<>>
    /\ last' = Op("assign", pk, NoParams)
    /\ UNCHANGED <<db, es, clock, indexed>>

\* BaseDocument.save.
Save(pk) ==
    /\ Usable
    /\ sess[pk].life \in {"transient", "persistent"}
    /\ clock < MaxClock
    /\ LET bumped == _bump_version(sess[pk], clock + 1)
           added == IF bumped.life = "transient"
                    THEN [bumped EXCEPT !.life = "pending"] ELSE bumped
           s1 == [sess EXCEPT ![pk] = added]
           evs == FlushEvents(s1, indexed)
       IN \/ /\ sess' = [FlushSession(s1, indexed) EXCEPT ![pk].loaded = AllFalse]
             /\ db' = FlushDb(s1, db)
             /\ events' = evs
             /\ es' = ApplyEvents(es, evs)
             /\ last' = Op("save", pk, NoParams)
          \/ \E e \in StorageErrors :
                \* session.flush() raises on its first statement
                /\ HasWork(s1)
                /\ sess' = s1
                /\ events' = <<>>
                /\ last' = Raised("save", pk, NoParams, e)
                /\ UNCHANGED <<db, es>>
    /\ clock' = clock + 1
    /\ UNCHANGED indexed

\* BaseDocument.update.
Update(pk, params) ==
    /\ Usable
    /\ sess[pk].life = "persistent"
    /\ clock < MaxClock
    /\ LET s1 == [sess EXCEPT ![pk] = _bump_version(_update(@, params), clock + 1)]
           evs == FlushEvents(s1, indexed)
       IN \/ /\ sess' = FlushSession(s1, indexed)
             /\ db' = FlushDb(s1, db)
             /\ events' = evs
             /\ es' = ApplyEvents(es, evs)
             /\ last' = Op("update", pk, params)
          \/ \E e \in StorageErrors :
                /\ HasWork(s1)
                /\ sess' = s1
                /\ events' = <<>>
                /\ last' = Raised("update", pk, params, e)
                /\ UNCHANGED <<db, es>>
    /\ clock' = clock + 1
    /\ UNCHANGED indexed

\* BaseDocument.delete: the instance is marked, the row goes at the next flush.
Delete(pk) ==
    /\ Usable
    /\ sess[pk].life = "persistent"
    /\ sess' = [sess EXCEPT ![pk].life = "deleting"]
    /\ events' = <<>>
    /\ last' = Op("delete", pk, NoParams)
    /\ UNCHANGED <<db, es, clock, indexed>>

\* The transaction manager's commit: the session is flushed and every
\* instance expired.
Commit ==
    /\ Usable
    /\ LET evs == FlushEvents(sess, indexed)
       IN /\ sess' = [pk \in PKs |->
                        [FlushObj(sess[pk], indexed) EXCEPT !.loaded = AllFalse]]
          /\ db' = FlushDb(sess, db)
          /\ events' = evs
          /\ es' = ApplyEvents(es, evs)
    /\ last' = Op("commit", 0, NoParams)
    /\ UNCHANGED <<clock, indexed>>

\* get_item(id=pk): the query autoflushes the session, then loads the row
\* into the instance.
Load(pk) ==
    /\ Usable
    /\ sess[pk].life = "persistent"
    /\ LET evs == FlushEvents(sess, indexed)
       IN /\ sess' = [FlushSession(sess, indexed) EXCEPT ![pk].loaded = AllTrue]
          /\ db' = FlushDb(sess, db)
          /\ events' = evs
          /\ es' = ApplyEvents(es, evs)
    /\ last' = Op("load", pk, NoParams)
    /\ UNCHANGED <<clock, indexed>>

Init ==
    /\ db = [pk \in PKs |-> NoRow]
    /\ sess = [pk \in PKs |-> [Transient EXCEPT !.id = pk]]
    /\ es = [pk \in PKs |-> NoDoc]
    /\ events = <<>>
    /\ clock = 0
    /\ indexed \in BOOLEAN
    /\ last = [kind |-> "init", pk |-> 0, params |-> NoParams,
               preDb |-> [pk \in PKs |-> NoRow],
               outcome |-> "returned", err |-> NoError, raised |-> NoRaise]

Next ==
    \/ \E pk \in PKs, params \in ParamBags : Assign(pk, params)
    \/ \E pk \in PKs : Save(pk)
    \/ \E pk \in PKs, params \in ParamBags : Update(pk, params)
    \/ \E pk \in PKs : Delete(pk)
    \/ Commit
    \/ \E pk \in PKs : Load(pk)

Spec == Init /\ [][Next]_vars

\* ------------------------------------------------------------------ queries
\* An entry of _sort or _fields: a name with an optional leading '-'.
Tok(sign, name) == [sign |-> sign, name |-> name]

\* A Query: equality filters on name and id (filter_by; the id filter is 0
\* when there is none), the ORDER BY entries, an optional limit, an offset,
\* the selected columns (none: the whole entity), and optionally a filter
\* "pk IN (subquery)".  A Query is generative: every method returns a new
\* Query, and ops lists the methods that get_collection and apply_fields /
\* apply_sort called to build this one, in order.
NoSub == [present |-> FALSE]
MkQuery(name, order, limited, limit, offset) ==
    [name |-> name, id |-> 0, order |-> order, limited |-> limited,
     limit |-> limit, offset |-> offset, cols |-> <<>>, sub |-> NoSub,
     ops |-> <<>>]

Range(seq) == {seq[i] : i \in DOMAIN seq}

\* The collation of the values of a column: NULL first, then alphabetical.
Rank(v) == CASE v = None -> 0 [] v = "bar" -> 1 [] v = "foo" -> 2 [] OTHER -> 3
SortKey(pk, field, d) == IF field = "id" THEN pk ELSE Rank(d[pk].vals[field])

\* Whether row a comes before row b under the ORDER BY entries; rows that tie
\* on every entry, and the rows of a query without ORDER BY, come in
\* primary-key order.
RECURSIVE Before(_, _, _, _)
Before(a, b, order, d) ==
    IF order = <<>> THEN a < b
    ELSE LET t == Head(order)
             ka == SortKey(a, t.name, d)
             kb == SortKey(b, t.name, d)
         IN IF ka = kb THEN Before(a, b, Tail(order), d)
            ELSE IF t.sign = "-" THEN ka > kb ELSE ka < kb

RECURSIVE Ordered(_, _, _)
Ordered(S, order, d) ==
    IF S = {} THEN <<>>
    ELSE LET x == CHOOSE x \in S : \A y \in S \ {x} : Before(x, y, order, d)
         IN <<x>> \o Ordered(S \ {x}, order, d)

Drop(seq, n) == IF n >= Len(seq) THEN <<>> ELSE SubSeq(seq, n + 1, Len(seq))
Take(seq, n) == IF n >= Len(seq) THEN seq ELSE SubSeq(seq, 1, n)

\* Query.all(): the primary keys of the rows the query selects, in order.
RECURSIVE EvalQuery(_, _)
EvalQuery(q, d) ==
    LET inSub == IF q.sub.present THEN Range(EvalQuery(q.sub.q, d)) ELSE PKs
        match == {pk \in PKs :
                     /\ d[pk].present
                     /\ q.name = Absent \/ d[pk].vals["name"] = q.name
                     /\ q.id = 0 \/ pk = q.id
                     /\ pk \in inSub}
        skipped == Drop(Ordered(match, q.order, d), q.offset)
    IN IF q.limited THEN Take(skipped, q.limit) ELSE skipped

\* Query.update() and Query.delete() refuse a query on which limit(),
\* offset() or order_by() has been called.
HasModifiers(q) == q.limited \/ q.offset > 0 \/ q.order # <<>>

_clean_queryset_same(q) == q

\* BaseMixin._clean_queryset: session.query(cls).filter(pk.in_(pks_query)).
_clean_queryset(q) ==
    [name |-> Absent, id |-> 0, order |-> <<>>, limited |-> FALSE, limit |-> 0,
     offset |-> 0, cols |-> <<>>, sub |-> [present |-> TRUE, q |-> q],
     ops |-> <<>>]

RECURSIVE to_dicts(_, _)
to_dicts(pks, d) ==
    IF pks = <<>> THEN <<>>
    ELSE <<to_dict(Head(pks), d[Head(pks)].vals)>> \o to_dicts(Tail(pks), d)

\* on_bulk_update: the handler of the session's after_bulk_update event.  It
\* runs the update's query again, after the UPDATE statement.
on_bulk_update(enabled, q, d) ==
    IF ~enabled THEN <<>>
    ELSE LET objects == EvalQuery(q, d)
         IN IF objects = <<>> THEN <<>>
            ELSE <<[op |-> "bulk_index", docs |-> to_dicts(objects, d), failed |-> FALSE],
                   [op |-> "bulk_index_relations", pks |-> objects, failed |-> FALSE]>>

\* on_bulk_delete: es.delete(ids), then es.bulk_index_relations(objects).  A
\* sink call that raises ends the handler.
on_bulk_delete(enabled, objects, fail) ==
    IF ~enabled THEN <<>>
    ELSE <<[op |-> "bulk_delete", ids |-> objects, failed |-> (fail = "delete")]>>
         \o (IF fail = "delete" THEN <<>>
             ELSE <<[op |-> "bulk_index_relations", pks |-> objects,
                     failed |-> (fail = "relations")]>>)

RECURSIVE IndexDocs(_, _)
IndexDocs(store, docs) ==
    IF docs = <<>> THEN store
    ELSE IndexDocs([store EXCEPT ![Head(docs).id] = Head(docs)], Tail(docs))

\* The secondary store after the sink calls of a bulk operation.
RECURSIVE ApplyBulkEvents(_, _)
ApplyBulkEvents(store, evs) ==
    IF evs = <<>> THEN store
    ELSE LET e == Head(evs)
             next == CASE e.failed -> store
                       [] e.op = "bulk_index" -> IndexDocs(store, e.docs)
                       [] e.op = "bulk_delete" ->
                             [pk \in PKs |-> IF pk \in Range(e.ids) THEN NoDoc
                                             ELSE store[pk]]
                       [] OTHER -> store
         IN ApplyBulkEvents(next, Tail(evs))

\* A bulk request and its outcome.  The request waits ("pending") until the
\* operation it names has run.
BulkOp(kind, q, value, fail, outcome, ret) ==
    [kind |-> kind, query |-> q, value |-> value, fail |-> fail,
     outcome |-> outcome, ret |-> ret, preDb |-> db]

Done(outcome, ret) == [last EXCEPT !.outcome = outcome, !.ret = ret]

\* BaseMixin._update_many on a Query, with params {name: value}.
UpdateMany ==
    /\ last.kind = "update_many"
    /\ last.outcome = "pending"
    /\ UNCHANGED <<sess, clock, indexed>>
    /\ LET upd_queryset == _clean_queryset(last.query)
       IN IF HasModifiers(upd_queryset)
          THEN /\ last' = Done("InvalidRequestError", 0)
               /\ events' = <<>>
               /\ UNCHANGED <<db, es>>
          ELSE LET matched == Range(EvalQuery(upd_queryset, db))
                   db1 == [pk \in PKs |->
                              IF pk \in matched
                              THEN [db[pk] EXCEPT !.vals["name"] = last.value]
                              ELSE db[pk]]
                   evs == on_bulk_update(indexed, upd_queryset, db1)
               IN /\ db' = db1
                  /\ events' = evs
                  /\ es' = ApplyBulkEvents(es, evs)
                  /\ last' = Done("returned", Cardinality(matched))

\* BaseMixin._delete_many on a Query; last.fail names the sink call that
\* raises, if one does.
DeleteMany ==
    /\ last.kind = "delete_many"
    /\ last.outcome = "pending"
    /\ UNCHANGED <<sess, clock, indexed>>
    /\ LET del_queryset == _clean_queryset(last.query)
           del_items == EvalQuery(del_queryset, db)
       IN IF HasModifiers(del_queryset)
          THEN /\ last' = Done("InvalidRequestError", 0)
               /\ events' = <<>>
               /\ UNCHANGED <<db, es>>
          ELSE LET gone == Range(EvalQuery(del_queryset, db))
                   evs == on_bulk_delete(indexed, del_items, last.fail)
                   raised == \E i \in DOMAIN evs : evs[i].failed
               IN /\ db' = [pk \in PKs |-> IF pk \in gone THEN NoRow ELSE db[pk]]
                  /\ events' = evs
                  /\ es' = ApplyBulkEvents(es, evs)
                  /\ last' = IF raised THEN Done("SinkError", 0)
                             ELSE Done("returned", Cardinality(gone))

Rows == {NoRow} \cup {MkRow([f \in FieldNames |-> n], 0, 0) : n \in Names}

Limits == {<<FALSE, 0>>} \cup {<<TRUE, k>> : k \in 0..MaxLimit}

Queries ==
    {MkQuery(n, o, l[1], l[2], s) :
        n \in Names \cup {Absent}, o \in {<<>>, <<Tok("-", "id")>>}, l \in Limits,
        s \in 0..MaxOffset}

\* A table, a secondary store that agrees with it, and one bulk request.
InitBulk ==
    /\ db \in [PKs -> Rows]
    /\ sess = [pk \in PKs |-> Transient]
    /\ indexed \in BOOLEAN
    /\ es = [pk \in PKs |->
                IF indexed /\ db[pk].present THEN to_dict(pk, db[pk].vals) ELSE NoDoc]
    /\ events = <<>>
    /\ clock = 0
    /\ \E q \in Queries :
           \/ \E v \in Names :
                  last = BulkOp("update_many", q, v, "none", "pending", 0)
           \/ \E fail \in {"none", "delete", "relations"} :
                  /\ fail # "none" => indexed
                  /\ last = BulkOp("delete_many", q, Absent, fail, "pending", 0)

NextBulk == UpdateMany \/ DeleteMany

SpecBulk == InitBulk /\ [][NextBulk]_vars

\* ----------------------------------------------------------- get_collection
\* An optional integer parameter: None, or a number.
NoInt == [given |-> FALSE, n |-> 0]
Some(n) == [given |-> TRUE, n |-> n]

native_fields == <<"id", "name">>

\* sorted(): the names of the model in Python's string order.
Alphabet ==
    <<"_count", "_fields", "_limit", "_page", "_sort", "_start",
      "a", "b", "c", "id", "name", "pk", "qwe">>
SortedNames(S) ==
    LET In(x) == x \in S IN SelectSeq(Alphabet, In)

\* A key of a params bag or an entry of a field list: a name, and what
\* follows its first '__' ("" when there is no '__').
Key(base, suffix) == [base |-> base, suffix |-> suffix]

\* BaseMixin.fields_to_query: the directive names and the native fields.
query_fields ==
    {"id", "_limit", "_page", "_sort", "_fields", "_count", "_start"}
fields_to_query(native) == query_fields \cup Range(native)

\* BaseMixin.check_fields_allowed: the names, each cut at its first '__',
\* that are not in fields_to_query; the call raises when there is one.
not_allowed(fields, native) ==
    {fields[i].base : i \in DOMAIN fields} \ fields_to_query(native)
check_fields_allowed(fields, native) == not_allowed(fields, native) # {}

\* BaseMixin.filter_fields: the keys whose name is in fields_to_query.
filter_fields_keep(params, native) == params

filter_fields(params, native) ==
    LET Allowed(k) == k.base \in fields_to_query(native)
    IN SelectSeq(params, Allowed)

\* nefertari.utils.process_fields: the entries without and with a leading '-'.
process_fields(_fields) ==
    LET Only(t) == t.sign # "-"
        Excl(t) == t.sign = "-"
        Names_(seq) == [i \in DOMAIN seq |-> seq[i].name]
    IN [only |-> Names_(SelectSeq(_fields, Only)),
        exclude |-> Names_(SelectSeq(_fields, Excl))]

fields_only_no_pk(native, pk, _fields) ==
    LET pf == process_fields(_fields)
        only0 == IF pf.only # <<>> THEN pf.only ELSE native
        Kept(f) == f \notin Range(pf.exclude)
    IN IF pf.only = <<>> /\ pf.exclude = <<>> THEN {}
       ELSE Range(SelectSeq(only0, Kept))

\* BaseMixin.apply_fields on a model with the given native fields and
\* primary key: the names that are selected (fields_only after the
\* exclusion and with the primary key), none when the query is left as it is.
fields_only(native, pk, _fields) ==
    LET pf == process_fields(_fields)
        only0 == IF pf.only # <<>> THEN pf.only ELSE native
        Kept(f) == f \notin Range(pf.exclude)
        only1 == SelectSeq(only0, Kept)
    IN IF pf.only = <<>> /\ pf.exclude = <<>> THEN {}
       ELSE IF only1 # <<>> THEN Range(only1) \cup {pk}
       ELSE {}

apply_fields_on_always(native, pk, q, _fields) ==
    [q EXCEPT !.cols = SortedNames(fields_only(native, pk, _fields)
                                       \cup Range(native)),
              !.ops = Append(@, "with_entities")]

apply_fields_on(native, pk, q, _fields) ==
    LET selected == fields_only(native, pk, _fields)
    IN IF selected = {} THEN q
       ELSE [q EXCEPT !.cols = SortedNames(selected),
                      !.ops = Append(@, "with_entities")]

\* getattr(cls, f) of a name that is no attribute of the model raises
\* AttributeError.
apply_fields_raises(native, pk, _fields) ==
    \E f \in fields_only(native, pk, _fields) : f \notin Range(native)

apply_fields(q, _fields) == apply_fields_on(native_fields, pk_field, q, _fields)

\* BaseMixin.apply_sort.
apply_sort(q, _sort) ==
    IF _sort = <<>> THEN q
    ELSE [q EXCEPT !.order = _sort, !.ops = Append(@, "order_by")]

apply_sort_raises(native, _sort) ==
    \E i \in DOMAIN _sort : _sort[i].name \notin Range(native)

\* nefertari.utils.process_limit for non-negative numbers, _start and _page
\* not both given: the offset is _start, or _page * _limit, or 0.
process_limit(_start, _page, _limit) ==
    [start |-> IF _start.given THEN _start.n
               ELSE IF _page.given THEN _page.n * _limit.n
               ELSE 0,
     limit |-> _limit.n]

\* get_collection, "if _limit is not None": offset and limit are applied
\* only when _limit is given; _start is rebound only then.
Paginate(c, q) ==
    IF c.limit.given
    THEN LET pl == process_limit(c.start, c.page, c.limit)
         IN [q |-> [q EXCEPT !.offset = pl.start, !.limited = TRUE,
                             !.limit = pl.limit,
                             !.ops = @ \o <<"offset", "limit">>],
             start |-> Some(pl.start)]
    ELSE [q |-> q, start |-> c.start]

\* The result of a call: one of the shapes count, explain, fields, queryset
\* (item for get_item), or an error.
NoMeta == [total |-> 0, start |-> NoInt, fields |-> <<>>]
NoResult ==
    [shape |-> "none", value |-> 0, sql |-> NoSub, rows |-> <<>>, maps |-> <<>>,
     meta |-> NoMeta, error |-> "none", counted |-> <<>>]
Error(name) == [NoResult EXCEPT !.shape = "error", !.error = name]

\* add_field_names: one mapping per row, with the selected columns, '_type',
\* and '_pk' = the value of the primary-key column; the primary-key column
\* itself stays only when it was requested.
RowMappingKeepPk(pk, cols, requested, d) ==
    LET keys == (Range(cols) \cup {"_type"})
                \cup (IF pk_field \in Range(cols) THEN {"_pk"} ELSE {})
    IN [k \in keys |->
           CASE k = "_type" -> ModelName
             [] k = "_pk" -> PyInt(pk)
             [] k = pk_field -> PyInt(pk)
             [] OTHER -> d[pk].vals[k]]

RowMapping(pk, cols, requested, d) ==
    LET keys == (Range(cols) \cup {"_type"})
                \cup (IF pk_field \in Range(cols) THEN {"_pk"} ELSE {})
        kept == IF pk_field \in Range(cols)
                   /\ Tok("", pk_field) \notin Range(requested)
                THEN keys \ {pk_field} ELSE keys
    IN [k \in kept |->
           CASE k = "_type" -> ModelName
             [] k = "_pk" -> PyInt(pk)
             [] k = pk_field -> PyInt(pk)
             [] OTHER -> d[pk].vals[k]]

\* add_field_names on a query that apply_fields left unprojected: the rows
\* are instances, and _convert's val + add_vals raises TypeError on the
\* first one.
add_field_names_raises(q, d) == q.cols = <<>> /\ EvalQuery(q, d) # <<>>

add_field_names(q, requested, d) ==
    LET values == EvalQuery(q, d)
    IN [i \in DOMAIN values |-> RowMapping(values[i], q.cols, requested, d)]

\* query_set.count() of the final query: whether the result set is empty.
IsEmptyTotal(q, _total, d) == _total = 0

IsEmpty(q, _total, d) == Len(EvalQuery(q, d)) = 0

\* The count of the filtered query, taken before projection, sort and
\* pagination.
CountPaged(c, q, d) == Len(EvalQuery(Paginate(c, q).q, d))

Count(c, q, d) == Len(EvalQuery(q, d))

RespondFieldsFirst(c, q, _total, _start, d) ==
    LET meta == [total |-> _total, start |-> _start, fields |-> c.fields]
    IN IF c.fields # <<>>
       THEN [NoResult EXCEPT !.shape = "fields", !.meta = meta,
                             !.maps = add_field_names(q, c.fields, d)]
       ELSE IF c.explain
            THEN [NoResult EXCEPT !.shape = "explain", !.sql = q]
            ELSE [NoResult EXCEPT !.shape = "queryset", !.meta = meta,
                                  !.rows = EvalQuery(q, d)]

\* The end of get_collection: the query text for _explain, the mappings for
\* a non-empty _fields, else the query set; the last two carry the metadata.
Respond(c, q, _total, _start, d) ==
    LET meta == [total |-> _total, start |-> _start, fields |-> c.fields]
    IN IF c.explain
       THEN [NoResult EXCEPT !.shape = "explain", !.sql = q]
       ELSE IF c.fields # <<>>
            THEN [NoResult EXCEPT !.shape = "fields", !.meta = meta,
                                  !.maps = add_field_names(q, c.fields, d)]
            ELSE [NoResult EXCEPT !.shape = "queryset", !.meta = meta,
                                  !.rows = EvalQuery(q, d)]

\* get_collection after the count: the field projection, then the sort, then
\* offset and limit.
TransformSortLast(c, q) ==
    LET pg == Paginate(c, apply_fields(q, c.fields))
    IN [q |-> apply_sort(pg.q, c.sort), start |-> pg.start]

Transform(c, q) ==
    Paginate(c, apply_sort(apply_fields(q, c.fields), c.sort))

\* The keys of the params that are left when the directives are popped.
ParamKeys(c) ==
    (IF c.name # Absent THEN <<Key("name", "")>> ELSE <<>>)
    \o (IF c.id # 0 THEN <<Key("id", "")>> ELSE <<>>)
    \o (IF c.extra # Absent THEN <<Key(c.extra, "")>> ELSE <<>>)

\* f.strip('-+') of the entries of _fields and _sort.
Stripped(toks) == [i \in DOMAIN toks |-> Key(toks[i].name, "")]

HasKey(params, name) == \E i \in DOMAIN params : params[i].base = name

\* BaseMixin.get_collection.
get_collection(c, d) ==
    LET _check_fields == ParamKeys(c) \o Stripped(c.fields) \o Stripped(c.sort)
        params == IF c.strict THEN ParamKeys(c)
                  ELSE filter_fields(ParamKeys(c), native_fields)
        filtered == [MkQuery(IF HasKey(params, "name") THEN c.name ELSE Absent,
                             <<>>, FALSE, 0, 0)
                        EXCEPT !.id = IF HasKey(params, "id") THEN c.id ELSE 0,
                               !.ops = <<"filter_by">>]
        _total == Count(c, filtered, d)
        pg == Transform(c, filtered)
    IN IF c.strict /\ check_fields_allowed(_check_fields, native_fields)
       THEN Error("JHTTPBadRequest")
       ELSE IF \E i \in DOMAIN params : params[i].base \notin Range(native_fields)
       THEN \* filter_by: InvalidRequestError, no such property
            Error("JHTTPBadRequest")
       ELSE IF c.count
       THEN [NoResult EXCEPT !.shape = "count", !.value = _total,
                             !.counted = filtered.ops]
       ELSE IF apply_fields_raises(native_fields, pk_field, c.fields)
               \/ apply_sort_raises(native_fields, c.sort)
       THEN Error("AttributeError")
       ELSE IF IsEmpty(pg.q, _total, d) /\ c.raise = "true"
       THEN Error("JHTTPNotFound")
       ELSE IF ~c.explain /\ c.fields # <<>> /\ add_field_names_raises(pg.q, d)
       THEN Error("TypeError")
       ELSE \* query_sql = str(query_set), whatever the shape
            [Respond(c, pg.q, _total, pg.start, d)
                EXCEPT !.counted = filtered.ops, !.sql = pg.q]

\* BaseMixin.get_item: _raise_on_empty defaults to True, _limit is 1, and
\* the first row of the collection is returned (None when there is none).
get_item(c, d) ==
    LET r == get_collection(
                 [c EXCEPT !.limit = Some(1),
                           !.raise = IF @ = "unset" THEN "true" ELSE @], d)
    IN IF r.shape = "error" THEN r
       ELSE [r EXCEPT !.shape = "item", !.rows = Take(@, 1)]

FieldLists ==
    {<<>>, <<Tok("", "name")>>, <<Tok("-", "name")>>, <<Tok("", "id")>>,
     <<Tok("-", "id"), Tok("-", "name")>>}
SortLists == {<<>>, <<Tok("-", "id")>>, <<Tok("", "name")>>}

CollCalls ==
    {c \in [fn : {"get_collection"}, name : Names \cup {Absent}, id : {0},
            extra : {Absent}, strict : {TRUE},
            fields : FieldLists, sort : SortLists,
            limit : {NoInt} \cup {Some(n) : n \in 0..MaxLimit},
            page : {NoInt} \cup {Some(n) : n \in 0..MaxPage},
            start : {NoInt} \cup {Some(n) : n \in 0..MaxOffset},
            count : BOOLEAN, explain : BOOLEAN, raise : {"unset", "true"}] :
        ~(c.page.given /\ c.start.given)}

\* Calls with _strict true or false whose filter keys, _fields and _sort
\* may name 'qwe', which is no field of the model.
StrictCalls ==
    [fn : {"get_collection"}, name : Names \cup {Absent}, id : {0},
     extra : {Absent, "qwe"}, strict : BOOLEAN,
     fields : {<<>>, <<Tok("", "name")>>, <<Tok("", "qwe")>>, <<Tok("-", "qwe")>>},
     sort : {<<>>, <<Tok("-", "id")>>, <<Tok("-", "qwe")>>},
     limit : {NoInt, Some(MaxLimit)}, page : {NoInt}, start : {NoInt},
     count : BOOLEAN, explain : {FALSE}, raise : {"unset"}]

ItemCalls ==
    [fn : {"get_item"}, name : {Absent}, id : PKs,
     extra : {Absent}, strict : {TRUE}, fields : {<<>>},
     sort : {<<>>}, limit : {NoInt}, page : {NoInt}, start : {NoInt},
     count : {FALSE}, explain : {FALSE}, raise : {"unset", "false"}]

Answer(result) == [last EXCEPT !.outcome = "returned", !.result = result]

GetCollection ==
    /\ last.kind = "get_collection"
    /\ last.outcome = "pending"
    /\ last' = Answer(get_collection(last.call, db))
    /\ UNCHANGED <<db, sess, es, events, clock, indexed>>

GetItem ==
    /\ last.kind = "get_item"
    /\ last.outcome = "pending"
    /\ last' = Answer(get_item(last.call, db))
    /\ UNCHANGED <<db, sess, es, events, clock, indexed>>

\* A table and one call.
InitColl ==
    /\ db \in [PKs -> Rows]
    /\ sess = [pk \in PKs |-> Transient]
    /\ indexed = FALSE
    /\ es = [pk \in PKs |-> NoDoc]
    /\ events = <<>>
    /\ clock = 0
    /\ \E c \in CollCalls \cup StrictCalls \cup ItemCalls :
           last = [kind |-> c.fn, call |-> c, outcome |-> "pending",
                   result |-> NoResult]

NextColl == GetCollection \/ GetItem

SpecColl == InitColl /\ [][NextColl]_vars

\* ------------------------------------------- field lists, on any model class
\* Two model classes: MyModel with the fields id (primary key) and name, and
\* a model with the fields a, b, c and pk (primary key).
ModelClasses ==
    {[native |-> native_fields, pk |-> pk_field],
     [native |-> <<"a", "b", "c", "pk">>, pk |-> "pk"]}

\* The sequences of at most n elements of S.
SeqsUpTo(S, n) == UNION {[1..k -> S] : k \in 0..n}

\* The orders in which the elements of a set can be iterated.
Orders(S) ==
    {seq \in [1..Cardinality(S) -> S] : Range(seq) = S}

\* check_fields_allowed(fields) on a class.  The message joins the set
\* not_allowed in its iteration order, which `order` stands for.
CheckFieldsAllowed ==
    /\ last.kind = "check_fields_allowed"
    /\ last.outcome = "pending"
    /\ LET c == last.call
           names == not_allowed(c.fields, c.cls.native)
       IN IF check_fields_allowed(c.fields, c.cls.native)
          THEN \E order \in Orders(names) :
                   last' = Answer([error |-> "JHTTPBadRequest", message |-> order])
          ELSE last' = Answer([error |-> "none", message |-> <<>>])
    /\ UNCHANGED <<db, sess, es, events, clock, indexed>>

\* apply_fields(query_set, _fields) on a class, on the query of the class.
ApplyFields ==
    /\ last.kind = "apply_fields"
    /\ last.outcome = "pending"
    /\ LET c == last.call
           q == MkQuery(Absent, <<>>, FALSE, 0, 0)
       IN last' = Answer(
              IF apply_fields_raises(c.cls.native, c.cls.pk, c.fields)
              THEN [error |-> "AttributeError", q |-> q]
              ELSE [error |-> "none",
                    q |-> apply_fields_on(c.cls.native, c.cls.pk, q, c.fields)])
    /\ UNCHANGED <<db, sess, es, events, clock, indexed>>

CheckedKeys ==
    {Key(b, x) : b \in {"name", "a", "pk", "qwe"}, x \in {"", "in"}}
FieldToks ==
    {Tok(sign, n) : sign \in {"", "-"}, n \in {"a", "b", "c", "pk", "id", "name"}}

FieldCalls ==
    [fn : {"check_fields_allowed"}, cls : ModelClasses,
     fields : SeqsUpTo(CheckedKeys, MaxFields)]
    \cup [fn : {"apply_fields"}, cls : ModelClasses,
          fields : SeqsUpTo(FieldToks, MaxFields)]

InitFields ==
    /\ db = [pk \in PKs |-> NoRow]
    /\ sess = [pk \in PKs |-> Transient]
    /\ indexed = FALSE
    /\ es = [pk \in PKs |-> NoDoc]
    /\ events = <<>>
    /\ clock = 0
    /\ \E c \in FieldCalls :
           last = [kind |-> c.fn, call |-> c, outcome |-> "pending",
                   result |-> [error |-> "none"]]

NextFields == CheckFieldsAllowed \/ ApplyFields

SpecFields == InitFields /\ [][NextFields]_vars

\* ---------------------------------------------- to_dict with relationships
\* Records of one model with a to-one relationship 'one' and a to-many
\* relationship 'many' to records of the same model.  A graph gives, for
\* every record, the record 'one' refers to (0: None) and the list 'many'
\* holds, and the class's _nested_relationships.
_nesting_depth == 1

\* What to_dict emits for a related record: its primary key, or its own
\* serialization.
NoneVal == [nested |-> FALSE, pk |-> 0, doc |-> NoDoc]
PkVal(pk) == [nested |-> FALSE, pk |-> pk, doc |-> NoDoc]
NestedVal(doc) == [nested |-> TRUE, pk |-> 0, doc |-> doc]

depth_reached_below_zero(_depth) == _depth < 0

depth_reached_past_zero(_depth) == _depth < 0 - 1

\* depth_reached = _depth is not None and _depth <= 0
depth_reached(_depth) == _depth <= 0

\* BaseMixin.to_dict(_depth=...) of record o.
RECURSIVE to_dict_rel(_, _, _)
to_dict_rel(o, _depth, g) ==
    LET encoder(field, v) ==
            IF field \notin g.nested \/ depth_reached(_depth)
            THEN PkVal(v)
            ELSE NestedVal(to_dict_rel(v, _depth - 1, g))
    IN [id |-> o,
        one |-> IF g.one[o] = 0 THEN NoneVal ELSE encoder("one", g.one[o]),
        many |-> [i \in DOMAIN g.many[o] |-> encoder("many", g.many[o][i])],
        _type |-> ModelName,
        _pk |-> PyStr(Str(o))]

\* obj.to_dict() or obj.to_dict(_depth=n): without _depth the class's
\* _nesting_depth is used.
ToDict ==
    /\ last.kind = "to_dict"
    /\ last.outcome = "pending"
    /\ LET c == last.call
           _depth == IF c.depth.given THEN c.depth.n ELSE _nesting_depth
       IN last' = Answer(to_dict_rel(c.obj, _depth, c.graph))
    /\ UNCHANGED <<db, sess, es, events, clock, indexed>>

\* The lists 'many' can hold: the first k records.
Prefixes == {[i \in 1..k |-> i] : k \in 0..MaxPk}

Graphs ==
    [one : [PKs -> 0..MaxPk], many : [PKs -> Prefixes],
     nested : SUBSET {"one", "many"}]

DictCalls ==
    [fn : {"to_dict"}, obj : PKs, graph : Graphs,
     depth : {NoInt} \cup {Some(n) : n \in (0 - 1)..MaxDepth}]

InitDict ==
    /\ db = [pk \in PKs |-> NoRow]
    /\ sess = [pk \in PKs |-> Transient]
    /\ indexed = FALSE
    /\ es = [pk \in PKs |-> NoDoc]
    /\ events = <<>>
    /\ clock = 0
    /\ \E c \in DictCalls :
           last = [kind |-> c.fn, call |-> c, outcome |-> "pending",
                   result |-> NoDoc]

NextDict == ToDict

SpecDict == InitDict /\ [][NextDict]_vars

\* A call of to_dict, once made, runs.
SpecDictLive == SpecDict /\ WF_vars(NextDict)

\* --------------------------------------------------------- update_iterables
\* The keys of an update: 'a', '-a', '__a' and ' a' (surrounding blanks).
IterNames == {"a", "b"}
IterKinds == {"plain", "neg", "dunder", "padded"}
ITok(kind, name) == [kind |-> kind, name |-> name]
IterToks == [kind : IterKinds, name : IterNames]

\* The value an update mapping holds under a key.
ValueOf(t) == IF t.kind = "padded" THEN "pad" ELSE "new"

NoMap == [k \in IterNames |-> Absent]

NamesOf(toks) == [i \in DOMAIN toks |-> toks[i].name]

\* split_keys: '__' keys are skipped, '-' keys lose the prefix, the others
\* are stripped.
split_keys(keys) ==
    LET IsNeg(t) == t.kind = "neg"
        IsPos(t) == t.kind \in {"plain", "padded"}
    IN [pos |-> NamesOf(SelectSeq(keys, IsPos)),
        neg |-> NamesOf(SelectSeq(keys, IsNeg))]

IterResult(error, isNone, map, list, stored, saved) ==
    [error |-> error, isNone |-> isNone, map |-> map, list |-> list,
     stored |-> stored, saved |-> saved]

IterUnchanged(c, error) ==
    IterResult(error, c.isNone, c.map, c.list, FALSE, FALSE)

\* update_dict.  update_params[key] is looked up with the stripped key.
update_dict(c) ==
    LET final0 == IF c.isNone THEN NoMap ELSE c.map
        clearing == c.update.form \in {"none", "empty"}
        present == {k \in IterNames : final0[k] # Absent}
        keys == IF clearing
                THEN [i \in DOMAIN SortedNames(present) |->
                          ITok("neg", SortedNames(present)[i])]
                ELSE c.update.keys
        sk == split_keys(keys)
        popped == [k \in IterNames |->
                      IF k \in Range(sk.neg) THEN Absent ELSE final0[k]]
        KeyError == \E i \in DOMAIN sk.pos :
                        ITok("plain", sk.pos[i]) \notin Range(keys)
        final == [k \in IterNames |->
                     IF k \in Range(sk.pos)
                     THEN ValueOf(ITok("plain", k)) ELSE popped[k]]
    IN IF clearing /\ present = {} THEN IterUnchanged(c, "none")
       ELSE IF KeyError THEN IterUnchanged(c, "KeyError")
       ELSE IterResult("none", FALSE, final, c.list, TRUE, c.save)

\* update_list.  `order` is the iteration order of the set difference.
update_list(c, order) ==
    LET final0 == IF c.isNone THEN <<>> ELSE c.list
        clearing == c.update.form \in {"none", "empty"}
        keys == IF clearing
                THEN [i \in DOMAIN final0 |-> ITok("neg", final0[i])]
                ELSE c.update.keys
        sk == split_keys(keys)
        Fresh(v) == v \notin Range(final0)
        positive == IF c.unique THEN SelectSeq(sk.pos, Fresh) ELSE sk.pos
        added == final0 \o positive
        final == IF sk.neg # <<>> THEN order ELSE added
    IN IF clearing /\ final0 = <<>> THEN IterUnchanged(c, "none")
       ELSE IF sk.pos \o sk.neg = <<>>
            THEN IterUnchanged(c, "JHTTPBadRequest")
       ELSE IterResult("none", FALSE, c.map, final, TRUE, c.save)

\* What list(set(final_value) - set(negative)) holds.
Kept(c) ==
    LET final0 == IF c.isNone THEN <<>> ELSE c.list
        clearing == c.update.form \in {"none", "empty"}
        keys == IF clearing
                THEN [i \in DOMAIN final0 |-> ITok("neg", final0[i])]
                ELSE c.update.keys
        sk == split_keys(keys)
    IN (Range(final0) \cup Range(sk.pos)) \ Range(sk.neg)

\* self.save(request) of the updated record: added to the session, flushed.
SaveFrom(s, pk) ==
    LET bumped == _bump_version(s[pk], clock + 1)
        added == IF bumped.life = "transient"
                 THEN [bumped EXCEPT !.life = "pending"] ELSE bumped
        s1 == [s EXCEPT ![pk] = added]
        evs == FlushEvents(s1, indexed)
    IN /\ sess' = [FlushSession(s1, indexed) EXCEPT ![pk].loaded = AllFalse]
       /\ db' = FlushDb(s1, db)
       /\ events' = evs
       /\ es' = ApplyEvents(es, evs)
       /\ clock' = clock + 1

IterSave(pk) == SaveFrom(sess, pk)

\* BaseDocument.update_iterables.
UpdateIterables ==
    /\ last.kind = "update_iterables"
    /\ last.outcome = "pending"
    /\ LET c == last.call
       IN \E order \in Orders(Kept(c)) :
           LET r == IF c.field = "dict" THEN update_dict(c)
                    ELSE update_list(c, order)
           IN /\ last' = Answer(r)
              /\ IF r.saved THEN IterSave(c.pk)
                 ELSE UNCHANGED <<db, sess, es, events, clock>>
    /\ UNCHANGED indexed

DistinctSeqs(S, n) ==
    {seq \in SeqsUpTo(S, n) :
        \A i, j \in DOMAIN seq : seq[i] = seq[j] => i = j}

IterUpdates(field) ==
    {[form |-> f, keys |-> <<>>] : f \in {"none", "empty"}}
    \cup {[form |-> "dict", keys |-> ks] : ks \in DistinctSeqs(IterToks, MaxItems)}
    \cup IF field = "list"
         THEN {[form |-> "list", keys |-> ks] : ks \in SeqsUpTo(IterToks, MaxItems)}
         ELSE {}

IterMaps == [IterNames -> {Absent, "old"}]

IterCalls ==
    {[fn |-> "update_iterables", pk |-> 1, field |-> "dict", isNone |-> n,
      map |-> m, list |-> <<>>, update |-> u, unique |-> FALSE, save |-> s] :
        n \in BOOLEAN, m \in IterMaps, u \in IterUpdates("dict"),
        s \in BOOLEAN}
    \cup
    {[fn |-> "update_iterables", pk |-> 1, field |-> "list", isNone |-> n,
      map |-> NoMap, list |-> l, update |-> u, unique |-> q, save |-> s] :
        n \in BOOLEAN, l \in SeqsUpTo(IterNames, MaxItems),
        u \in IterUpdates("list"), q \in BOOLEAN, s \in BOOLEAN}

InitIter ==
    /\ db = [pk \in PKs |-> NoRow]
    /\ sess = [pk \in PKs |-> [Transient EXCEPT !.id = pk]]
    /\ indexed = FALSE
    /\ es = [pk \in PKs |-> NoDoc]
    /\ events = <<>>
    /\ clock = 0
    /\ \E c \in IterCalls :
           /\ c.isNone => (c.map = NoMap /\ c.list = <<>>)
           /\ last = [kind |-> c.fn, call |-> c, outcome |-> "pending",
                      result |-> IterUnchanged(c, "none")]

NextIter == UpdateIterables

SpecIter == InitIter /\ [][NextIter]_vars

\* ------------------------------------------------------------ get_or_create
\* The primary key an insert without 'id' is given by the table.
NewPk(d) ==
    LET used == {pk \in PKs : d[pk].present}
    IN IF used = {} THEN 1 ELSE (CHOOSE m \in used : \A pk \in used : pk <= m) + 1

GocResult(obj, created, error) ==
    [obj |-> obj, created |-> created, error |-> error]

\* get_collection(_limit=_limit, **params) as get_or_create calls it.
GocQuery(c) ==
    [fn |-> "get_collection", name |-> c.name, id |-> 0, extra |-> Absent,
     strict |-> TRUE, fields |-> <<>>, sort |-> <<>>,
     limit |-> IF c.limit.given THEN c.limit ELSE Some(1),
     page |-> NoInt, start |-> NoInt, count |-> FALSE, explain |-> FALSE,
     raise |-> "unset"]

\* defaults.update(params): the fields of the record to create.
GocFields(c) ==
    [id |-> 0,
     set |-> [f \in FieldNames |->
                 IF c.name # Absent THEN c.name ELSE c.defaults]]

GocCalls ==
    [fn : {"get_or_create"}, name : Names \cup {Absent},
     defaults : Names \cup {Absent},
     limit : {NoInt} \cup {Some(n) : n \in 1..(MaxLimit + 1)}]

NoCall == [fn |-> "none", name |-> Absent, defaults |-> Absent, limit |-> NoInt]

GocAnswer(c, r) ==
    [kind |-> "get_or_create", call |-> c, outcome |-> "returned",
     result |-> r, preDb |-> db, n |-> last.n + 1,
     prev |-> [call |-> last.call, created |-> last.result.created]]

\* BaseMixin.get_or_create.
GetOrCreate(c) ==
    /\ last.n < MaxCalls
    /\ LET rows == get_collection(GocQuery(c), db).rows
           new == NewPk(db)
       IN IF Len(rows) = 1
          THEN \* query_set.one() returns the row
               /\ last' = GocAnswer(c, GocResult(rows[1], FALSE, "none"))
               /\ UNCHANGED <<db, sess, es, events, clock>>
          ELSE IF Len(rows) > 1
          THEN \* MultipleResultsFound
               /\ last' = GocAnswer(c, GocResult(0, FALSE, "JHTTPBadRequest"))
               /\ UNCHANGED <<db, sess, es, events, clock>>
          ELSE \* NoResultFound: cls(**defaults).save()
               /\ new \in PKs
               /\ clock < MaxClock
               /\ SaveFrom([sess EXCEPT ![new] =
                               _update([Transient EXCEPT !.id = new],
                                       GocFields(c))], new)
               /\ last' = GocAnswer(c, GocResult(new, TRUE, "none"))
    /\ UNCHANGED indexed

InitGoc ==
    /\ db \in [PKs -> Rows]
    /\ sess = [pk \in PKs |->
                  IF db[pk].present
                  THEN [Transient EXCEPT !.id = pk, !.life = "persistent",
                                         !.vals = db[pk].vals]
                  ELSE [Transient EXCEPT !.id = pk]]
    /\ indexed = FALSE
    /\ es = [pk \in PKs |-> NoDoc]
    /\ events = <<>>
    /\ clock = 0
    /\ last = [kind |-> "init", call |-> NoCall, outcome |-> "returned",
               result |-> GocResult(0, FALSE, "none"), preDb |-> db, n |-> 0,
               prev |-> [call |-> NoCall, created |-> FALSE]]

NextGoc == \E c \in GocCalls : GetOrCreate(c)

SpecGoc == InitGoc /\ [][NextGoc]_vars

\* ------------------------------------- filters on list- and map-typed fields
\* A model with the fields name (scalar), groups (ListField) and settings
\* (DictField); 'settings.foo' is a map key with a subkey.
FilterKeys == {"name", "groups", "settings", "settings.foo"}
FilterFields == {"name", "groups", "settings"}
GroupSets == {<<>>, <<"bar">>}

\* columns.get(key) in _pop_iterables: the ListField and DictField columns
\* by their exact name.
ColType(key) ==
    IF key = "groups" THEN "list"
    ELSE IF key = "settings" THEN "dict"
    ELSE "none"

FilterVals(key) ==
    IF key = "name" THEN {Absent, "foo", "_all"}
    ELSE IF key = "groups" THEN {Absent, "bar", "_all"}
    ELSE IF key = "settings" THEN {Absent, "foo", "_all"}
    ELSE {Absent, "foo2"}

FilterBags ==
    {p \in [FilterKeys -> {Absent, "foo", "bar", "foo2", "_all"}] :
        \A k \in FilterKeys : p[k] \in FilterVals(k)}

Expr(key, op, subkey, value, wrapped) ==
    [key |-> key, op |-> op, subkey |-> subkey, value |-> value,
     wrapped |-> wrapped]

\* BaseMixin._pop_iterables.
_pop_iterables(params, is_postgres) ==
    LET found == {k \in FilterKeys :
                     params[k] # Absent /\ ColType(k) # "none"}
    IN IF \E k \in found : ColType(k) = "dict"
       THEN [error |-> "Exception", exprs |-> {}, params |-> params]
       ELSE [error |-> "none",
             exprs |-> {Expr(k, "contains", "", params[k], is_postgres) :
                           k \in found},
             params |-> [k \in FilterKeys |->
                            IF k \in found THEN Absent ELSE params[k]]]

PopIterables ==
    /\ last.kind = "_pop_iterables"
    /\ last.outcome = "pending"
    /\ last' = Answer(_pop_iterables(last.call.params, last.call.postgres))
    /\ UNCHANGED <<db, sess, es, events, clock, indexed>>

FilterResult(error, rows, data) ==
    [error |-> error, rows |-> rows, data |-> data, exprs |-> {},
     params |-> [k \in FilterKeys |-> Absent]]

\* "except DataError as ex" in get_collection.  ex.message is an attribute
\* of Python 2 exceptions only.
on_data_error(_item_request, py3) ==
    IF _item_request
    THEN IF py3 THEN FilterResult("AttributeError", <<>>, "none")
         ELSE FilterResult("JHTTPNotFound", <<>>, "none")
    ELSE FilterResult("JHTTPBadRequest", <<>>, "DataError")

\* get_collection from the '__' keys to the count, on this model: the
\* containment expressions are popped, the keys are checked or filtered,
\* the '_all' values are popped, the filters are applied and counted.
filter_collection(c, d) ==
    LET pop == _pop_iterables(c.params, c.postgres)
        p1 == pop.params
        unknown == {k \in FilterKeys : p1[k] # Absent /\ k \notin FilterFields}
        p2 == [k \in FilterKeys |->
                  IF k \in unknown \/ p1[k] = "_all" THEN Absent ELSE p1[k]]
        match == {pk \in PKs :
                     /\ d[pk].present
                     /\ p2["name"] = Absent \/ d[pk].vals["name"] = p2["name"]
                     /\ \A e \in pop.exprs : e.value \in Range(d[pk].groups)}
        rows == Ordered(match, <<>>, d)
    IN IF pop.error # "none" THEN FilterResult(pop.error, <<>>, "none")
       ELSE IF c.strict /\ unknown # {}
       THEN FilterResult("JHTTPBadRequest", <<>>, "none")
       ELSE IF c.mistyped /\ p2["name"] # Absent
       THEN on_data_error(c.item, c.py3)
       ELSE IF c.item /\ rows = <<>>
       THEN FilterResult("JHTTPNotFound", <<>>, "none")
       ELSE FilterResult("none", IF c.item THEN Take(rows, 1) ELSE rows, "none")

FilterCollection ==
    /\ last.kind = "filter_collection"
    /\ last.outcome = "pending"
    /\ last' = Answer(filter_collection(last.call, db))
    /\ UNCHANGED <<db, sess, es, events, clock, indexed>>

FilterRows ==
    {[present |-> FALSE, vals |-> [f \in FieldNames |-> None], groups |-> <<>>]}
    \cup {[present |-> TRUE, vals |-> [f \in FieldNames |-> n], groups |-> g] :
             n \in Names, g \in GroupSets}

FilterCalls ==
    [fn : {"_pop_iterables"}, params : FilterBags, postgres : BOOLEAN,
     strict : {TRUE}, item : {FALSE}, mistyped : {FALSE}, py3 : {FALSE}]
    \cup
    [fn : {"filter_collection"}, params : FilterBags, postgres : BOOLEAN,
     strict : BOOLEAN, item : BOOLEAN, mistyped : BOOLEAN, py3 : BOOLEAN]

InitFilter ==
    /\ db \in [PKs -> FilterRows]
    /\ sess = [pk \in PKs |-> Transient]
    /\ indexed = FALSE
    /\ es = [pk \in PKs |-> NoDoc]
    /\ events = <<>>
    /\ clock = 0
    /\ \E c \in FilterCalls :
           /\ c.fn = "_pop_iterables" => \A pk \in PKs : ~db[pk].present
           /\ c.mistyped => c.params["name"] # Absent
           /\ last = [kind |-> c.fn, call |-> c, outcome |-> "pending",
                      result |-> FilterResult("none", <<>>, "none")]

NextFilter == PopIterables \/ FilterCollection

SpecFilter == InitFilter /\ [][NextFilter]_vars

\* ------------------------------------------- the handlers and the relations
\* A sink call or a session call of a handler: 'via' tells whether it is
\* about the handler's target itself, about a record that embeds it, or
\* about the record a changed to-one field held before.
Ev(op, pk, via) == [op |-> op, pk |-> pk, via |-> via, doc |-> NoDoc]
Push(pk, via, vals) ==
    [op |-> "index", pk |-> pk, via |-> via, doc |-> to_dict(pk, vals)]

\* es.index_relations(obj): the records that embed obj are serialized and
\* pushed again.
IndexRelations(c, d) ==
    LET refs == Ordered(c.embedders, <<>>, d)
    IN [i \in DOMAIN refs |-> Push(refs[i], "relations", d[refs[i]].vals)]

IndexObjectRefsFirst(pk, vals, with_refs, via, c, d) ==
    (IF with_refs THEN IndexRelations(c, d) ELSE <<>>)
    \o <<Push(pk, via, vals)>>

\* index_object(obj, with_refs): es.index(obj.to_dict()), then
\* es.index_relations(obj) when with_refs.
IndexObject(pk, vals, with_refs, via, c, d) ==
    <<Push(pk, via, vals)>> \o (IF with_refs THEN IndexRelations(c, d) ELSE <<>>)

\* on_after_insert: get_item reloads the target, the reloaded record is
\* indexed with its relations.
AfterInsertCalls(c, d) ==
    <<Ev("get_item", c.pk, "self")>>
    \o IndexObject(c.pk, d[c.pk].vals, TRUE, "self", c, d)

\* on_after_update: every document in committed_state is expired unless the
\* session holds it modified, and indexed without its relations; then the
\* target's columns are expired and the target is indexed with its relations.
AfterUpdateCalls(c, s, d) ==
    (IF c.old = 0 THEN <<>>
     ELSE (IF c.oldModified THEN <<>> ELSE <<Ev("expire", c.old, "old")>>)
          \o IndexObject(c.old,
                         IF c.oldModified THEN s[c.old].vals ELSE d[c.old].vals,
                         FALSE, "old", c, d))
    \o <<Ev("expire", c.pk, "self")>>
    \o IndexObject(c.pk, d[c.pk].vals, TRUE, "self", c, d)

\* on_after_delete: es.delete(obj_id), then es.index_relations(target).
AfterDeleteCalls(c, d) ==
    <<Ev("delete", c.pk, "self")>> \o IndexRelations(c, d)

\* Session.expire: the next attribute access loads the stored values.
Expired(s, evs, d) ==
    [pk \in PKs |->
        IF \E i \in DOMAIN evs :
               evs[i].op \in {"expire", "get_item"} /\ evs[i].pk = pk
        THEN [s[pk] EXCEPT !.vals = d[pk].vals]
        ELSE s[pk]]

Handle(fn, evs) ==
    /\ last.kind = fn
    /\ last.outcome = "pending"
    /\ events' = evs
    /\ es' = ApplyEvents(es, evs)
    /\ sess' = Expired(sess, evs, db)
    /\ last' = [last EXCEPT !.outcome = "returned"]
    /\ UNCHANGED <<db, clock, indexed>>

OnAfterInsert == Handle("on_after_insert", AfterInsertCalls(last.call, db))
OnAfterUpdate == Handle("on_after_update", AfterUpdateCalls(last.call, sess, db))
OnAfterDelete == Handle("on_after_delete", AfterDeleteCalls(last.call, db))

SyncCalls ==
    {c \in [fn : {"on_after_insert", "on_after_update", "on_after_delete"},
            pk : PKs, old : 0..MaxPk, oldModified : BOOLEAN,
            embedders : SUBSET PKs] :
        /\ c.old # c.pk
        /\ c.pk \notin c.embedders
        /\ c.fn # "on_after_update" => c.old = 0
        /\ c.old = 0 => ~c.oldModified}

\* Every record is stored; the session holds the target as it was flushed
\* and, when it is modified, the old related record with unflushed values.
InitSync ==
    /\ db \in [PKs -> Rows \ {NoRow}]
    /\ indexed = TRUE
    /\ es = [pk \in PKs |-> NoDoc]
    /\ events = <<>>
    /\ clock = 0
    /\ \E c \in SyncCalls, mem \in [PKs -> Names] :
           /\ sess = [pk \in PKs |->
                         [Transient EXCEPT
                             !.id = pk, !.life = "persistent",
                             !.vals = [f \in FieldNames |->
                                          IF (pk = c.old /\ c.oldModified)
                                             \/ pk = c.pk
                                          THEN mem[pk]
                                          ELSE db[pk].vals[f]],
                             !.modified = (pk = c.old /\ c.oldModified)]]
           /\ last = [kind |-> c.fn, call |-> c, outcome |-> "pending",
                      result |-> NoDoc]

NextSync == OnAfterInsert \/ OnAfterUpdate \/ OnAfterDelete

SpecSync == InitSync /\ [][NextSync]_vars

\* ------------------------------------------------------------------ claims
CountEv(op, pk) ==
    Cardinality({i \in DOMAIN events : events[i].op = op /\ events[i].pk = pk})

Inserted(pk) == ~last.preDb[pk].present /\ db[pk].present
ReallyUpdated(pk) ==
    /\ last.preDb[pk].present
    /\ db[pk].present
    /\ last.preDb[pk].vals # db[pk].vals
Removed(pk) == last.preDb[pk].present /\ ~db[pk].present

C5_VersionBumpIffRealChange ==
    (last.kind \in {"save", "update"} /\ last.outcome = "returned") =>
        LET pre == last.preDb[last.pk]
            o == sess[last.pk]
        IN IF pre.present
           THEN IF \E f \in FieldNames : o.vals[f] # pre.vals[f]
                THEN o.version = pre.version + 1 /\ o.updated = clock
                ELSE o.version = pre.version /\ o.updated = pre.updated
           ELSE o.version = 0 /\ o.updated = 0

\* The rows the original query of the last bulk operation selected.
Selected == Range(EvalQuery(last.query, last.preDb))

\* C2: after _update_many on a Query of an index-enabled model, every record
\* the bulk update affected has its new field values in its document of the
\* secondary store.
C2_BulkUpdateReindexesAffected ==
    (last.kind = "update_many" /\ indexed /\ last.outcome = "returned") =>
        \A pk \in Selected : es[pk] = to_dict(pk, db[pk].vals)

C4_BulkDeleteSinkErrorCaught ==
    (last.kind = "delete_many" /\ last.outcome # "pending" /\ last.fail # "none") =>
        /\ last.outcome = "returned"
        /\ \A pk \in Selected : ~db[pk].present

\* The rows that match the equality filters of a call.
Matching(c, d) ==
    {pk \in PKs :
        /\ d[pk].present
        /\ c.name = Absent \/ d[pk].vals["name"] = c.name
        /\ c.id = 0 \/ pk = c.id}

Returned(kind) == last.kind = kind /\ last.outcome = "returned"

\* The names that a call's filter keys, _fields and _sort use.
FilterNames(c) ==
    (IF c.name # Absent THEN {"name"} ELSE {})
    \cup (IF c.id # 0 THEN {"id"} ELSE {})
    \cup (IF c.extra # Absent THEN {c.extra} ELSE {})
TokNames(toks) == {toks[i].name : i \in DOMAIN toks}
AllowedNames == query_fields \cup {"id", "name"}

\* A call whose filter keys (as far as strict mode checks them), _fields
\* and _sort name allowed fields only: the validation of C11 lets it pass.
FiltersPass(c) == c.strict => FilterNames(c) \subseteq AllowedNames
ListsPass(c) == TokNames(c.fields) \cup TokNames(c.sort) \subseteq AllowedNames

C8_NoLimitIsBadRequest ==
    (/\ Returned("get_collection")
     /\ ~last.call.limit.given
     /\ ~last.call.count
     /\ ~last.call.explain) =>
        /\ last.result.shape = "error"
        /\ last.result.error = "JHTTPBadRequest"

\* The offset that the call asks for: _start, or _page * _limit, or 0; it
\* is applied only together with a limit.
AskedOffset(c) ==
    IF c.start.given THEN c.start.n
    ELSE IF c.page.given /\ c.limit.given THEN c.page.n * c.limit.n
    ELSE 0
AppliedOffset(c) == IF c.limit.given THEN AskedOffset(c) ELSE 0

\* C9: the collection that get_collection returns carries the metadata
\* total = the number of rows matching the filters, start = the offset
\* applied to the query (0 when neither _page nor _start is given), and
\* fields = the requested field list.
C9_Metadata ==
    (Returned("get_collection") /\ last.result.shape \in {"queryset", "fields"}) =>
        /\ last.result.meta.total = Cardinality(Matching(last.call, db))
        /\ last.result.meta.start = Some(AppliedOffset(last.call))
        /\ last.result.meta.fields = last.call.fields

\* Whether the final result set of a call (after the filters, the offset and
\* the limit) is empty, and whether the call asks to raise on it.
FinalEmpty(kind, c, d) ==
    LET n == Cardinality(Matching(c, d))
    IN IF kind = "get_item" THEN n = 0
       ELSE IF c.limit.given THEN n <= AskedOffset(c) \/ c.limit.n = 0
       ELSE n = 0
RaiseOnEmpty(kind, c) ==
    IF kind = "get_item" THEN c.raise # "false" ELSE c.raise = "true"

Requested(c) == {c.fields[i].base : i \in DOMAIN c.fields}
AllowList(c) == query_fields \cup Range(c.cls.native)

\* C12: check_fields_allowed raises a bad-request error if and only if the
\* requested names R are not a subset of the allow-list F, and the message
\* lists exactly the names of R \ F, in sorted order.
C12_CheckFieldsAllowed ==
    Returned("check_fields_allowed") =>
        LET c == last.call
            r == last.result
        IN /\ (r.error = "JHTTPBadRequest") <=> ~(Requested(c) \subseteq AllowList(c))
           /\ r.error = "JHTTPBadRequest" =>
                  r.message = SortedNames(Requested(c) \ AllowList(c))

\* The fixed order of the query transformations of get_collection.
StepOrder == <<"filter_by", "with_entities", "order_by", "offset", "limit">>
StepPos(op) == CHOOSE i \in DOMAIN StepOrder : StepOrder[i] = op
InStepOrder(ops) ==
    \A i, j \in DOMAIN ops : i < j => StepPos(ops[i]) < StepPos(ops[j])

Inclusion(toks) == {toks[i].name : i \in {j \in DOMAIN toks : toks[j].sign # "-"}}
Exclusion(toks) == {toks[i].name : i \in {j \in DOMAIN toks : toks[j].sign = "-"}}
Effective(c) ==
    (IF Inclusion(c.fields) # {} THEN Inclusion(c.fields) ELSE Range(c.cls.native))
        \ Exclusion(c.fields)

AlphaPos(n) == CHOOSE i \in DOMAIN Alphabet : Alphabet[i] = n
IsSorted(seq) ==
    \A i, j \in DOMAIN seq : i < j => AlphaPos(seq[i]) < AlphaPos(seq[j])
Unmodified(q) == q.cols = <<>> /\ q.ops = <<>>

FieldsAMinusB == <<Tok("", "a"), Tok("-", "b")>>
OnABC(fields) ==
    /\ Returned("apply_fields")
    /\ last.call.cls.native = <<"a", "b", "c", "pk">>
    /\ last.call.fields = fields

\* C15 as stated: projecting [a, -b] on the model {a, b, c, pk} selects the
\* columns a, c, pk; projecting [] leaves the query unmodified.
C15_RoundTripAsStated ==
    /\ OnABC(FieldsAMinusB) => last.result.q.cols = <<"a", "c", "pk">>
    /\ OnABC(<<>>) => Unmodified(last.result.q)

\* C15, amended: projecting [a, -b] on the model {a, b, c, pk} selects
\* exactly the columns a, pk, in sorted order (an exclusion only removes
\* names from a given inclusion list); projecting [] leaves the query
\* unmodified.
C15_RoundTrip ==
    /\ OnABC(FieldsAMinusB) =>
           last.result.error = "none" /\ last.result.q.cols = <<"a", "pk">>
    /\ OnABC(<<>>) =>
           last.result.error = "none" /\ Unmodified(last.result.q)

C15_Witness ==
    /\ OnABC(FieldsAMinusB)
    /\ last.result.q.ops = <<"with_entities">>

\* The rows of the page that a call asks for: the matching rows, sorted,
\* from the offset, up to the limit.
Page(c, d) ==
    LET sorted == Ordered(Matching(c, d), c.sort, d)
    IN IF c.limit.given THEN Take(Drop(sorted, AskedOffset(c)), c.limit.n)
       ELSE sorted

C17_PkIsString ==
    /\ \A pk \in PKs :
           db[pk].present => to_dict(pk, db[pk].vals)._pk = PyStr(Str(pk))
    /\ (Returned("get_collection") /\ last.result.shape = "fields") =>
           \A i \in DOMAIN last.result.maps :
               last.result.maps[i]["_pk"] = PyStr(Str(Page(last.call, db)[i]))

\* What the claim says to_dict emits for the related record `target` of a
\* relationship field at the depth given, and for a record as a whole.
RECURSIVE EmittedAsClaimed(_, _, _, _, _)
RECURSIVE SerializedAsClaimed(_, _, _, _)
EmittedAsClaimed(v, target, field, depth, g) ==
    IF field \in g.nested /\ depth > 0
    THEN v.nested /\ SerializedAsClaimed(v.doc, target, depth - 1, g)
    ELSE ~v.nested /\ v.pk = target
SerializedAsClaimed(doc, o, depth, g) ==
    /\ doc.id = o
    /\ g.one[o] # 0 => EmittedAsClaimed(doc.one, g.one[o], "one", depth, g)
    /\ Len(doc.many) = Len(g.many[o])
    /\ \A i \in DOMAIN doc.many :
           EmittedAsClaimed(doc.many[i], g.many[o][i], "many", depth, g)

CallDepth(c) == IF c.depth.given THEN c.depth.n ELSE 1

\* C18: to_dict emits a related record (or each record of a related list) as
\* its full serialization with the depth decremented by one if and only if
\* the field is in _nested_relationships and the depth is greater than 0,
\* and as its primary key otherwise; at depth 0 nothing is nested.
C18_NestedRelationships ==
    Returned("to_dict") =>
        LET c == last.call
        IN /\ SerializedAsClaimed(last.result, c.obj, CallDepth(c), c.graph)
           /\ CallDepth(c) = 0 =>
                  /\ ~last.result.one.nested
                  /\ \A i \in DOMAIN last.result.many :
                         ~last.result.many[i].nested

\* Two records that refer to each other through the nested field 'one',
\* serialized at depth 2: two levels are nested, the third is a primary key.
C18_Witness ==
    /\ Returned("to_dict")
    /\ last.call.depth = Some(2)
    /\ last.result.one.nested
    /\ last.result.one.doc.one.nested
    /\ ~last.result.one.doc.one.doc.one.nested
    /\ last.result.one.doc.one.doc.one.pk = last.result.one.doc.id

\* C19: an update never changes the primary key of a record: a primary-key
\* key in the params bag is ignored without an error, the key after the
\* update is the key before it, and every other key of the bag is applied.
C19_UpdateKeepsPk ==
    /\ \A pk \in PKs : sess[pk].id = pk
    /\ (last.kind = "update" /\ last.outcome = "returned") =>
           \A f \in FieldNames :
               last.params.set[f] # Absent =>
                   /\ sess[last.pk].vals[f] = last.params.set[f]
                   /\ db[last.pk].present
                   /\ db[last.pk].vals[f] = last.params.set[f]

\* An update of record 1 with {id: 2, name: 'bar'}: the name is stored, the
\* record is still record 1.
C19_Witness ==
    /\ last.kind = "update"
    /\ last.outcome = "returned"
    /\ last.pk = 1
    /\ last.params.id = 2
    /\ last.params.set["name"] = "bar"
    /\ db[1].present
    /\ db[1].vals["name"] = "bar"
    /\ sess[1].id = 1

\* C20: when the flush in save() or update() fails, a uniqueness violation
\* becomes a conflict error that names the model and carries the storage
\* error, and every other storage error reaches the caller unchanged.
C20_FlushErrors ==
    (last.kind \in {"save", "update"} /\ last.outcome = "raised") =>
        IF last.err.unique
        THEN /\ last.raised.exc = "JHTTPConflict"
             /\ last.raised.model = ModelName
             /\ last.raised.data = last.err
        ELSE /\ last.raised.exc = last.err.cls
             /\ last.raised.data = last.err

IterDone(field) ==
    /\ last.kind = "update_iterables"
    /\ last.outcome = "returned"
    /\ last.call.field = field

Clearing(c) == c.update.form \in {"none", "empty"}

HasTok(c, kind, k) == ITok(kind, k) \in Range(c.update.keys)

CurrentMap(c) == IF c.isNone THEN NoMap ELSE c.map

\* The map the update asks for: the current map without the '-' keys,
\* overridden by the non-prefixed keys of the update.
AskedMap(c) ==
    [k \in IterNames |->
        IF Clearing(c) THEN Absent
        ELSE IF HasTok(c, "plain", k) THEN ValueOf(ITok("plain", k))
        ELSE IF HasTok(c, "padded", k) THEN ValueOf(ITok("padded", k))
        ELSE IF HasTok(c, "neg", k) THEN Absent
        ELSE CurrentMap(c)[k]]

NotSaved(pk) == sess[pk].life = "transient" /\ ~db[pk].present

\* C21: update_iterables on a map field makes the field the current map
\* without the '-'-prefixed keys of the update, overridden by the update's
\* non-prefixed key -> value pairs; '__' keys are ignored, None or '' gives
\* the empty map, and with save=False the record is neither added to the
\* session nor flushed.
C21_MapUpdate ==
    IterDone("dict") =>
        /\ last.result.error = "none"
        /\ last.result.map = AskedMap(last.call)
        /\ ~last.call.save => NotSaved(last.call.pk)

CountIn(seq, v) == Cardinality({i \in DOMAIN seq : seq[i] = v})

CurrentList(c) == IF c.isNone THEN <<>> ELSE c.list

\* C22: update_iterables on a list field gives a list with every positive
\* item of the update, none of the '-' items and every current item that was
\* not removed, keeping the multiplicity of items when unique=False; '__'
\* items are ignored and None or '' gives the empty list.
C22_ListUpdate ==
    IterDone("list") =>
        LET c == last.call
            r == last.result
            sk == split_keys(c.update.keys)
        IN /\ r.error = "none"
           /\ Clearing(c) => r.list = <<>>
           /\ ~Clearing(c) =>
                /\ Range(sk.pos) \subseteq Range(r.list)
                /\ Range(sk.neg) \cap Range(r.list) = {}
                /\ Range(CurrentList(c)) \ Range(sk.neg) \subseteq Range(r.list)
                /\ ~c.unique =>
                     \A v \in IterNames \ Range(sk.neg) :
                         CountIn(r.list, v) =
                             CountIn(CurrentList(c), v) + CountIn(sk.pos, v)

NoDuplicates(seq) == \A i, j \in DOMAIN seq : seq[i] = seq[j] => i = j

\* C30: update_iterables on a list field with unique=True keeps the list
\* free of duplicates: when the current list has none, the resulting list
\* has none, whatever the update value.
C30_UniqueKeepsDuplicateFree ==
    (IterDone("list") /\ last.call.unique
        /\ NoDuplicates(CurrentList(last.call))) =>
        NoDuplicates(last.result.list)

GocDone == last.kind = "get_or_create"

GocMatches ==
    {pk \in PKs :
        /\ last.preDb[pk].present
        /\ last.call.name = Absent
             \/ last.preDb[pk].vals["name"] = last.call.name}

GocCreated == {pk \in PKs : ~last.preDb[pk].present /\ db[pk].present}

\* C23: get_or_create returns (record, False) and creates nothing when
\* exactly one record matches; creates and saves exactly one record from
\* defaults overridden by params and returns (it, True) when none matches;
\* raises the bad request 'Bad or Insufficient Params' and creates nothing
\* when more than one matches; two calls in a row with the same params
\* return created=True at most once.
C23_GetOrCreate ==
    GocDone =>
        LET r == last.result
        IN /\ Cardinality(GocMatches) = 1 =>
                /\ r.error = "none" /\ ~r.created
                /\ r.obj \in GocMatches
                /\ db = last.preDb
           /\ GocMatches = {} =>
                /\ r.error = "none" /\ r.created
                /\ GocCreated = {r.obj}
                /\ \A pk \in PKs \ {r.obj} : db[pk] = last.preDb[pk]
                /\ \A f \in FieldNames :
                       db[r.obj].vals[f] =
                           IF GocFields(last.call).set[f] = Absent THEN None
                           ELSE GocFields(last.call).set[f]
           /\ Cardinality(GocMatches) > 1 =>
                /\ r.error = "JHTTPBadRequest"
                /\ db = last.preDb
           /\ (last.prev.call = last.call /\ last.prev.created) => ~r.created

FilterDone(fn) == last.kind = fn /\ last.outcome = "returned"

\* C24: a residual filter key whose value is '_all' imposes no filter: for
\* every field of the model (scalar, list- or map-typed) and every other
\* parameter the call returns what the same call without that key returns.
C24_AllImposesNoFilter ==
    FilterDone("filter_collection") =>
        \A k \in FilterFields :
            last.call.params[k] = "_all" =>
                last.result =
                    filter_collection([last.call EXCEPT !.params[k] = Absent], db)

\* A DataError is raised: the mistyped filter value reaches the storage.
DataErrorRaised ==
    /\ FilterDone("filter_collection")
    /\ last.call.mistyped
    /\ last.call.params["name"] \notin {Absent, "_all"}
    /\ \A k \in FilterKeys \ {"name"} : last.call.params[k] = Absent

\* C25: a DataError of the storage layer while get_collection filters,
\* counts or paginates is translated to a not-found error in a single-item
\* request and to a bad request carrying the original error otherwise; the
\* DataError itself never reaches the caller.
C25_DataErrorTranslated ==
    DataErrorRaised =>
        /\ last.call.item => last.result.error = "JHTTPNotFound"
        /\ ~last.call.item =>
              /\ last.result.error = "JHTTPBadRequest"
              /\ last.result.data = "DataError"

IterableKeys ==
    {k \in FilterKeys \ {"name"} : last.call.params[k] # Absent}

ClaimedExpr(k) ==
    IF k = "groups"
    THEN Expr("groups", "contains", "", last.call.params[k], last.call.postgres)
    ELSE IF k = "settings"
    THEN Expr("settings", "has_key", "", last.call.params[k], FALSE)
    ELSE Expr("settings", "contains", "foo", last.call.params[k], FALSE)

\* C26: _pop_iterables removes from the params exactly the keys that name a
\* list- or map-typed field (a map key possibly suffixed with '.subkey'),
\* leaves every other key unchanged and returns one containment expression
\* per removed key: 'contains value' for a list field (the value wrapped in
\* a list on a native-array backend), 'has key value' for a map field and
\* 'contains {subkey: value}' for a map field with a subkey.
C26_PopIterables ==
    FilterDone("_pop_iterables") =>
        /\ last.result.error = "none"
        /\ \A k \in FilterKeys :
               last.result.params[k] =
                   IF k \in IterableKeys THEN Absent ELSE last.call.params[k]
        /\ last.result.exprs = {ClaimedExpr(k) : k \in IterableKeys}

SyncDone(fn) == last.kind = fn /\ last.outcome = "returned"

EvAt(op, via) ==
    {i \in DOMAIN events : events[i].op = op /\ events[i].via = via}

Precedes(A, B) == \A i \in A, j \in B : i < j

\* C27: in each single-record handler the target's own sink operation comes
\* strictly before the reindexing of related records: on insert the record
\* is reloaded from the database and its upsert is pushed before any record
\* that embeds it is pushed again; on delete the removal by primary key is
\* pushed before any sibling is pushed again.
C27_OwnOperationFirst ==
    /\ SyncDone("on_after_insert") =>
          /\ Cardinality(EvAt("get_item", "self")) = 1
          /\ Cardinality(EvAt("index", "self")) = 1
          /\ \A i \in EvAt("index", "self") :
                /\ events[i].pk = last.call.pk
                /\ events[i].doc = to_dict(last.call.pk, db[last.call.pk].vals)
          /\ Precedes(EvAt("get_item", "self"), EvAt("index", "self"))
          /\ Precedes(EvAt("index", "self"), EvAt("index", "relations"))
          /\ {events[i].pk : i \in EvAt("index", "relations")}
                = last.call.embedders
    /\ SyncDone("on_after_delete") =>
          /\ Cardinality(EvAt("delete", "self")) = 1
          /\ \A i \in EvAt("delete", "self") : events[i].pk = last.call.pk
          /\ Precedes(EvAt("delete", "self"), EvAt("index", "relations"))
          /\ {events[i].pk : i \in EvAt("index", "relations")}
                = last.call.embedders

C27_Witness ==
    /\ SyncDone("on_after_insert")
    /\ last.call.embedders # {}
    /\ EvAt("index", "relations") # {}

\* C28: on update of a record one of whose changed fields held a to-one
\* related record, the previously linked record is pushed as an upsert,
\* without its own relations, only when it is unmodified in the session; it
\* is pushed before the updated record, and the updated record's column
\* values are refreshed from storage before it is serialized and pushed.
C28_OldTargetPushed ==
    (SyncDone("on_after_update") /\ last.call.old # 0) =>
        /\ EvAt("index", "old") # {} => ~last.call.oldModified
        /\ ~last.call.oldModified => Cardinality(EvAt("index", "old")) = 1
        /\ \A i \in EvAt("index", "old") : events[i].pk = last.call.old
        /\ Precedes(EvAt("index", "old"), EvAt("index", "self"))
        /\ Precedes(EvAt("expire", "self"), EvAt("index", "self"))
        /\ Cardinality(EvAt("expire", "self")) = 1
        /\ \A i \in EvAt("index", "self") :
               events[i].doc = to_dict(last.call.pk, db[last.call.pk].vals)

MaxOf(S) == CHOOSE m \in S : \A x \in S : x <= m

\* How many levels of related records a serialized record embeds.
RECURSIVE Levels(_)
RECURSIVE ValLevels(_)
ValLevels(v) == IF v.nested THEN 1 + Levels(v.doc) ELSE 0
Levels(doc) ==
    MaxOf({0, ValLevels(doc.one)}
          \cup {ValLevels(doc.many[i]) : i \in DOMAIN doc.many})

\* C29: to_dict terminates on every finite record graph, cyclic ones
\* included, for every starting depth (the default or a per-call depth,
\* zero and negative included), and what it returns never embeds related
\* records more than max(depth, 0) levels deep.
C29_ToDictTerminates ==
    /\ <>(last.outcome = "returned")
    /\ [](Returned("to_dict") =>
            Levels(last.result) <= MaxOf({CallDepth(last.call), 0}))

\* Two records that nest each other, serialized at a negative depth and at
\* depth 2.
C29_Witness ==
    /\ Returned("to_dict")
    /\ last.call.graph.one[1] = 2 /\ last.call.graph.one[2] = 1
    /\ last.call.graph.nested = {"one", "many"}
    /\ \/ last.call.depth = Some(0 - 1) /\ Levels(last.result) = 0
       \/ last.call.depth = Some(2) /\ Levels(last.result) = 2

====
